---- MODULE Spec2Model ----
(***************************************************************************)
(* State-machine model of the client runtime of epm-data-forge:            *)
(*   - the status channel (src/src/stores/statusStore.ts, zustand store    *)
(*     around a WebSocket and two kinds of timers);                        *)
(*   - the streaming preview session (generatePreview in                   *)
(*     src/src/context/ModelContext.tsx).                                  *)
(* Every handler of the source is one action.  Variables whose comment     *)
(* says "history" record which events happened; no handler reads them.     *)
(***************************************************************************)
EXTENDS Integers, Sequences, FiniteSets, TLC

-----------------------------------------------------------------------------
(* Bounds *)

\* number of WebSocket objects constructed in one run
MaxSockets == 7
\* number of explicit connectWebSocket calls made by components in one run
MaxExplicitConnects == 2
\* number of lines in the body of one /generate-stream response
MaxLines == 2
\* number of dimensions of the model, and of dimensions created in one run
MaxDims == 3

-----------------------------------------------------------------------------
(* Program constants of the status store *)

maxReconnectAttempts == 5

\* WebSocket.readyState
CONNECTING == 0
OPEN == 1
CLOSING == 2
CLOSED == 3

ConnectingNotice == "Connecting to status service..."
ConnectedNotice == "Status service connected."
ErrorNotice == "Status service connection error."
ReconnectingNotice == "Status service disconnected. Attempting to reconnect..."
MaxReachedNotice == "Status service disconnected. Max reconnect attempts reached."
GiveUpNotice == "Status service disconnected. Please check backend and refresh."

\* payloads of the status messages pushed by the backend (event.data)
Messages == {"Coordinator: started", "Data Generation: 50%"}

\* the "no socket" value of the store's socket field (null)
NoSocket == 0

VARIABLES
  latestStatus,       \* StatusState.latestStatus
  isConnected,        \* StatusState.isConnected
  socket,             \* StatusState.socket: NoSocket or an index into ws
  reconnectAttempts,  \* StatusState.reconnectAttempts
  ws,                 \* readyState of every WebSocket constructed so far
  reconnectTimers,    \* pending setTimeout(connectWebSocket, 5000)
  clearTimers,        \* pending 3000 ms self-clear callbacks
  lastOp,             \* history: the handler that ran last
  explicitConnects,   \* history: explicit connectWebSocket calls so far
  closes,             \* history: close events since the last open event
  fails,              \* history: closes of never-opened connections since
                      \*   the last open event
  scheduled,          \* history: reconnects scheduled since the last open
  manual,             \* history: disconnectWebSocket was called and
                      \*   connectWebSocket was not called explicitly since
  discSinceOpen,      \* history: disconnectWebSocket was called since the
                      \*   last open event
  pendingAtDisc       \* history: reconnect timers that were pending at the
                      \*   last disconnectWebSocket call and have not fired
                      \*   (timers fire in the order they were set)

statusVars == <<latestStatus, isConnected, socket, reconnectAttempts, ws,
                reconnectTimers, clearTimers, lastOp, explicitConnects,
                closes, fails, scheduled, manual, discSinceOpen,
                pendingAtDisc>>

VARIABLES
  dimensions,         \* model.dimensions (ids of the dimensions)
  currentStep,        \* ModelProvider's currentStep
  previewLoading,     \* ModelProvider's previewLoading
  previewData,        \* ModelProvider's previewData: [isNull, rows]
  previewProgress,    \* ModelProvider's previewProgress: [chunks, rows]
  toast,              \* the toast shown last: [kind, msg, n]
  pc,                 \* position of the generatePreview call in its body
  stream,             \* text of the response body sent by the backend
  pos,                \* number of characters of stream read so far
  buffer,             \* generatePreview's local buffer
  allRows,            \* generatePreview's local allRows
  chunkCount,         \* generatePreview's local chunkCount
  rowCount,           \* generatePreview's local rowCount
  splitMid,           \* history: a read ended in the middle of a line
  multi,              \* history: one read held two or more newlines
  outcomes            \* history: the terminal toasts of the current call
                      \*   ("success" of line 311, "failure" of the catch)

contextVars == <<dimensions, currentStep, previewLoading, previewData,
                 previewProgress, toast>>
sessionVars == <<pc, stream, pos, buffer, allRows, chunkCount, rowCount,
                 splitMid, multi, outcomes>>
previewVars == <<contextVars, sessionVars>>

VARIABLES
  hpc,                \* position of the handleModelConfirm call in its body
  hStream,            \* text of the response body it reads
  hPos,               \* number of characters of hStream read so far
  hAllRows,           \* handleModelConfirm's local allRows
  hPreviewData        \* App's previewData: [isNull, rows]

confirmVars == <<hpc, hStream, hPos, hAllRows, hPreviewData>>

VARIABLES
  dimensionInputMethod, \* ModelProvider's dimensionInputMethod
  stepPhase,          \* ModelTypeStep's stepPhase
  dialogOpen,         \* DimensionsStep's dialogOpen
  editingDimension,   \* DimensionsStep's editingDimension: NoDim or an id
  now                 \* Date.now(), counted in saves of new dimensions

wizardVars == <<dimensionInputMethod, stepPhase, dialogOpen,
                editingDimension, now>>

VARIABLES
  pc2,                \* position of a second generatePreview call in its body
  stream2,            \* the body of the response to the second call
  pos2,               \* number of characters of stream2 already read
  buffer2,            \* the local "buffer" of the second call
  allRows2,           \* the local "allRows" of the second call
  chunkCount2,        \* the local "chunkCount" of the second call
  rowCount2           \* the local "rowCount" of the second call

secondVars == <<pc2, stream2, pos2, buffer2, allRows2, chunkCount2, rowCount2>>

\* the state outside the status store and outside generatePreview
auxVars == <<confirmVars, wizardVars, secondVars>>

vars == <<statusVars, previewVars, auxVars>>

-----------------------------------------------------------------------------
(* The status store *)

StatusInit ==
  /\ latestStatus = ""
  /\ isConnected = FALSE
  /\ socket = NoSocket
  /\ reconnectAttempts = 0
  /\ ws = <<>>
  /\ reconnectTimers = 0
  /\ clearTimers = 0
  /\ lastOp = "init"
  /\ explicitConnects = 0
  /\ closes = 0
  /\ fails = 0
  /\ scheduled = 0
  /\ manual = FALSE
  /\ discSinceOpen = FALSE
  /\ pendingAtDisc = 0

\* the preview state of ModelProvider before any generatePreview call
NoPreviewYet ==
  /\ previewLoading = FALSE
  /\ previewData = [isNull |-> TRUE, rows |-> <<>>]
  /\ previewProgress = [chunks |-> 0, rows |-> 0]
  /\ toast = [kind |-> "none", prefix |-> "", msg |-> "", n |-> 0]
  /\ pc = "idle"
  /\ stream = <<>>
  /\ pos = 0
  /\ buffer = <<>>
  /\ allRows = <<>>
  /\ chunkCount = 0
  /\ rowCount = 0
  /\ splitMid = FALSE
  /\ multi = FALSE
  /\ outcomes = <<>>

\* the initial state of ModelProvider
ContextInit == currentStep = 0 /\ NoPreviewYet

\* the initial state of App, before any handleModelConfirm call
ConfirmInit ==
  /\ hpc = "idle"
  /\ hStream = <<>>
  /\ hPos = 0
  /\ hAllRows = <<>>
  /\ hPreviewData = [isNull |-> FALSE, rows |-> <<>>]

\* the "no dimension" value of editingDimension (null)
NoDim == 0

\* the initial state of the wizard's components
WizardInit ==
  /\ dimensionInputMethod = "undecided"
  /\ stepPhase = "selectType"
  /\ dialogOpen = FALSE
  /\ editingDimension = NoDim
  /\ now = 1

\* no second generatePreview call has been made
SecondInit ==
  /\ pc2 = "idle"
  /\ stream2 = <<>>
  /\ pos2 = 0
  /\ buffer2 = <<>>
  /\ allRows2 = <<>>
  /\ chunkCount2 = 0
  /\ rowCount2 = 0

AuxInit == ConfirmInit /\ WizardInit /\ SecondInit

\* the guard "socket && socket.readyState < 2" of connectWebSocket
AlreadyConnecting == socket # NoSocket /\ ws[socket] < CLOSING

\* body of connectWebSocket: the guard, the notice and new WebSocket(WS_URL)
connectWebSocket ==
  IF AlreadyConnecting
    THEN UNCHANGED <<latestStatus, ws>>
    ELSE /\ latestStatus' = ConnectingNotice
         /\ ws' = Append(ws, CONNECTING)

\* a component calls connectWebSocket (App's effect)
ExplicitConnect ==
  /\ UNCHANGED <<previewVars, auxVars>>
  /\ explicitConnects < MaxExplicitConnects
  /\ AlreadyConnecting \/ Len(ws) < MaxSockets
  /\ connectWebSocket
  /\ lastOp' = "connect"
  /\ explicitConnects' = explicitConnects + 1
  /\ manual' = FALSE
  /\ pendingAtDisc' = 0
  /\ UNCHANGED <<isConnected, socket, reconnectAttempts, reconnectTimers,
                 clearTimers, closes, fails, scheduled, discSinceOpen>>

\* the reconnect timer fires: setTimeout(get().connectWebSocket, 5000)
ReconnectTimer ==
  /\ UNCHANGED <<previewVars, auxVars>>
  /\ reconnectTimers > 0
  /\ AlreadyConnecting \/ Len(ws) < MaxSockets
  /\ reconnectTimers' = reconnectTimers - 1
  /\ connectWebSocket
  /\ lastOp' = "reconnectTimer"
  /\ pendingAtDisc' = IF pendingAtDisc > 0 THEN pendingAtDisc - 1 ELSE 0
  /\ UNCHANGED <<isConnected, socket, reconnectAttempts, clearTimers,
                 explicitConnects, closes, fails, scheduled, manual,
                 discSinceOpen>>

\* onopen without the socket field in its set(...)
OnOpen_NoSocket(i) ==
  /\ UNCHANGED <<previewVars, auxVars>>
  /\ ws[i] = CONNECTING
  /\ ws' = [ws EXCEPT ![i] = OPEN]
  /\ isConnected' = TRUE
  /\ latestStatus' = ConnectedNotice
  /\ reconnectAttempts' = 0
  /\ clearTimers' = clearTimers + 1
  /\ lastOp' = "open"
  /\ closes' = 0
  /\ fails' = 0
  /\ scheduled' = 0
  /\ discSinceOpen' = FALSE
  /\ UNCHANGED <<socket, reconnectTimers, explicitConnects, manual,
                 pendingAtDisc>>

\* newSocket.onopen
OnOpen(i) ==
  /\ UNCHANGED <<previewVars, auxVars>>
  /\ ws[i] = CONNECTING
  /\ ws' = [ws EXCEPT ![i] = OPEN]
  /\ isConnected' = TRUE
  /\ latestStatus' = ConnectedNotice
  /\ reconnectAttempts' = 0
  /\ socket' = i
  /\ clearTimers' = clearTimers + 1
  /\ lastOp' = "open"
  /\ closes' = 0
  /\ fails' = 0
  /\ scheduled' = 0
  /\ discSinceOpen' = FALSE
  /\ UNCHANGED <<reconnectTimers, explicitConnects, manual, pendingAtDisc>>

\* the self-clear written as an unconditional timer
ClearTimer_Unconditional ==
  /\ UNCHANGED <<previewVars, auxVars>>
  /\ clearTimers > 0
  /\ clearTimers' = clearTimers - 1
  /\ latestStatus' = ""
  /\ lastOp' = "clearTimer"
  /\ UNCHANGED <<isConnected, socket, reconnectAttempts, ws, reconnectTimers,
                 explicitConnects, closes, fails, scheduled, manual,
                 discSinceOpen, pendingAtDisc>>

\* the callback scheduled by onopen fires after 3000 ms
ClearTimer ==
  /\ UNCHANGED <<previewVars, auxVars>>
  /\ clearTimers > 0
  /\ clearTimers' = clearTimers - 1
  /\ latestStatus' = IF latestStatus = ConnectedNotice THEN "" ELSE latestStatus
  /\ lastOp' = "clearTimer"
  /\ UNCHANGED <<isConnected, socket, reconnectAttempts, ws, reconnectTimers,
                 explicitConnects, closes, fails, scheduled, manual,
                 discSinceOpen, pendingAtDisc>>

\* newSocket.onmessage
OnMessage(i, data) ==
  /\ UNCHANGED <<previewVars, auxVars>>
  /\ ws[i] = OPEN
  /\ latestStatus' = data
  /\ lastOp' = "message"
  /\ UNCHANGED <<isConnected, socket, reconnectAttempts, ws, reconnectTimers,
                 clearTimers, explicitConnects, closes, fails, scheduled,
                 manual, discSinceOpen, pendingAtDisc>>

\* onerror doing the state transition of onclose itself
OnError_Disconnects(i) ==
  /\ UNCHANGED <<previewVars, auxVars>>
  /\ ws[i] # CLOSED
  /\ latestStatus' = ErrorNotice
  /\ isConnected' = FALSE
  /\ socket' = NoSocket
  /\ lastOp' = "error"
  /\ UNCHANGED <<reconnectAttempts, ws, reconnectTimers, clearTimers,
                 explicitConnects, closes, fails, scheduled, manual,
                 discSinceOpen, pendingAtDisc>>

\* newSocket.onerror
OnError(i) ==
  /\ UNCHANGED <<previewVars, auxVars>>
  /\ ws[i] # CLOSED
  /\ latestStatus' = ErrorNotice
  /\ lastOp' = "error"
  /\ UNCHANGED <<isConnected, socket, reconnectAttempts, ws, reconnectTimers,
                 clearTimers, explicitConnects, closes, fails, scheduled,
                 manual, discSinceOpen, pendingAtDisc>>

\* history bookkeeping of a close event of connection i
CloseHistory(i) ==
  /\ lastOp' = "close"
  /\ closes' = IF closes <= maxReconnectAttempts THEN closes + 1 ELSE closes
  /\ fails' = IF ws[i] = CONNECTING /\ fails <= maxReconnectAttempts
                THEN fails + 1 ELSE fails
  /\ UNCHANGED <<clearTimers, explicitConnects, manual, discSinceOpen,
                 pendingAtDisc>>

\* onclose with the limit test written "<=": one reconnect too many
OnClose_OffByOne(i) ==
  /\ UNCHANGED <<previewVars, auxVars>>
  /\ ws[i] # CLOSED
  /\ ws' = [ws EXCEPT ![i] = CLOSED]
  /\ isConnected' = FALSE
  /\ socket' = NoSocket
  /\ IF reconnectAttempts <= maxReconnectAttempts
       THEN /\ latestStatus' = ReconnectingNotice
            /\ reconnectAttempts' = reconnectAttempts + 1
            /\ reconnectTimers' = reconnectTimers + 1
            /\ scheduled' = scheduled + 1
       ELSE /\ latestStatus' = GiveUpNotice
            /\ UNCHANGED <<reconnectAttempts, reconnectTimers, scheduled>>
  /\ CloseHistory(i)

\* onclose without the final set of the give-up notice (line 77)
OnClose_NoGiveUp(i) ==
  /\ UNCHANGED <<previewVars, auxVars>>
  /\ ws[i] # CLOSED
  /\ ws' = [ws EXCEPT ![i] = CLOSED]
  /\ isConnected' = FALSE
  /\ socket' = NoSocket
  /\ IF reconnectAttempts < maxReconnectAttempts
       THEN /\ latestStatus' = ReconnectingNotice
            /\ reconnectAttempts' = reconnectAttempts + 1
            /\ reconnectTimers' = reconnectTimers + 1
            /\ scheduled' = scheduled + 1
       ELSE /\ latestStatus' = MaxReachedNotice
            /\ UNCHANGED <<reconnectAttempts, reconnectTimers, scheduled>>
  /\ CloseHistory(i)

\* onclose scheduling the reconnect without counting it
OnClose_NoIncrement(i) ==
  /\ UNCHANGED <<previewVars, auxVars>>
  /\ ws[i] # CLOSED
  /\ ws' = [ws EXCEPT ![i] = CLOSED]
  /\ isConnected' = FALSE
  /\ socket' = NoSocket
  /\ IF reconnectAttempts < maxReconnectAttempts
       THEN /\ latestStatus' = ReconnectingNotice
            /\ reconnectTimers' = reconnectTimers + 1
            /\ scheduled' = scheduled + 1
            /\ UNCHANGED reconnectAttempts
       ELSE /\ latestStatus' = GiveUpNotice
            /\ UNCHANGED <<reconnectAttempts, reconnectTimers, scheduled>>
  /\ CloseHistory(i)

\* onclose counting and scheduling without the test of the limit
OnClose_Unbounded(i) ==
  /\ UNCHANGED <<previewVars, auxVars>>
  /\ ws[i] # CLOSED
  /\ ws' = [ws EXCEPT ![i] = CLOSED]
  /\ isConnected' = FALSE
  /\ socket' = NoSocket
  /\ latestStatus' = ReconnectingNotice
  /\ reconnectAttempts' = reconnectAttempts + 1
  /\ reconnectTimers' = reconnectTimers + 1
  /\ scheduled' = scheduled + 1
  /\ CloseHistory(i)

\* newSocket.onclose: the first set(...) writes isConnected, socket and a
\* notice chosen by the counter; then either the counter is incremented and
\* a reconnect is scheduled, or the notice is replaced by the give-up notice
OnClose(i) ==
  /\ UNCHANGED <<previewVars, auxVars>>
  /\ ws[i] # CLOSED
  /\ ws' = [ws EXCEPT ![i] = CLOSED]
  /\ isConnected' = FALSE
  /\ socket' = NoSocket
  /\ LET firstNotice == IF reconnectAttempts < maxReconnectAttempts
                          THEN ReconnectingNotice ELSE MaxReachedNotice
     IN IF reconnectAttempts < maxReconnectAttempts
          THEN /\ latestStatus' = firstNotice
               /\ reconnectAttempts' = reconnectAttempts + 1
               /\ reconnectTimers' = reconnectTimers + 1
               /\ scheduled' = scheduled + 1
          ELSE /\ latestStatus' = GiveUpNotice
               /\ UNCHANGED <<reconnectAttempts, reconnectTimers, scheduled>>
  /\ CloseHistory(i)

\* disconnectWebSocket
disconnectWebSocket ==
  /\ UNCHANGED <<previewVars, auxVars>>
  /\ IF socket # NoSocket
       THEN /\ reconnectAttempts' = maxReconnectAttempts
            /\ ws' = [ws EXCEPT ![socket] = IF @ < CLOSING THEN CLOSING ELSE @]
            /\ socket' = NoSocket
            /\ isConnected' = FALSE
            /\ latestStatus' = ""
       ELSE UNCHANGED <<reconnectAttempts, ws, socket, isConnected, latestStatus>>
  /\ lastOp' = "disconnect"
  /\ manual' = TRUE
  /\ discSinceOpen' = TRUE
  /\ pendingAtDisc' = reconnectTimers
  /\ UNCHANGED <<reconnectTimers, clearTimers, explicitConnects, closes,
                 fails, scheduled>>

\* the events of the WebSockets constructed so far
Open == \E i \in DOMAIN ws : OnOpen(i)
Message == \E i \in DOMAIN ws : \E data \in Messages : OnMessage(i, data)
Error == \E i \in DOMAIN ws : OnError(i)
Close == \E i \in DOMAIN ws : OnClose(i)

StatusNext ==
  \/ ExplicitConnect
  \/ ReconnectTimer
  \/ ClearTimer
  \/ disconnectWebSocket
  \/ Open
  \/ Message
  \/ Error
  \/ Close

StatusSpecInit == StatusInit /\ ContextInit /\ AuxInit /\ dimensions = <<>>

SpecStatus == StatusSpecInit /\ [][StatusNext]_vars

-----------------------------------------------------------------------------
(* The response body of /generate-stream: newline-delimited JSON.  Text is a *)
(* sequence of characters; a row is written as a one-digit JSON number.     *)

NL == "\n"
Digits == {"1", "2", "3"}

\* the lines a backend may send: arrays of rows, blank lines, and lines that
\* are not JSON
LineTexts ==
  { <<"[", "1", "]">>,
    <<" ", "[", "2", ",", "3", "]">>,
    <<"[", "]">>,
    <<>>,
    <<" ">>,
    <<"[", "1">> }

RECURSIVE Join(_, _)
\* the lines of ls, each followed by a newline, except the last one when the
\* body is not newline-terminated
Join(ls, terminated) ==
  IF ls = <<>> THEN <<>>
  ELSE IF Len(ls) = 1 /\ ~terminated THEN ls[1]
  ELSE ls[1] \o <<NL>> \o Join(Tail(ls), terminated)

Bodies ==
  { Join(ls, t) : ls \in UNION { [1..n -> LineTexts] : n \in 0..MaxLines },
                  t \in BOOLEAN }

-----------------------------------------------------------------------------
(* String functions used by generatePreview *)

RECURSIVE Split(_)
\* String.prototype.split('\n')
Split(s) ==
  IF \A i \in 1..Len(s) : s[i] # NL THEN <<s>>
  ELSE LET k == CHOOSE i \in 1..Len(s) :
                  s[i] = NL /\ \A j \in 1..(i - 1) : s[j] # NL
       IN <<SubSeq(s, 1, k - 1)>> \o Split(SubSeq(s, k + 1, Len(s)))

IsSpace(c) == c = " " \/ c = NL

RECURSIVE Trim(_)
\* String.prototype.trim()
Trim(s) ==
  IF s = <<>> THEN s
  ELSE IF IsSpace(s[1]) THEN Trim(Tail(s))
  ELSE IF IsSpace(s[Len(s)]) THEN Trim(SubSeq(s, 1, Len(s) - 1))
  ELSE s

\* s without the characters that JSON treats as insignificant whitespace
NoSpace(s) == SelectSeq(s, LAMBDA c : ~IsSpace(c))

\* JSON.parse on the JSON texts of this model: an array of one-digit
\* numbers.  ok = FALSE stands for the SyntaxError it throws otherwise.
JSONparse(text) ==
  LET t == NoSpace(text)
      inner == SubSeq(t, 2, Len(t) - 1)
      wellFormed ==
        /\ Len(t) >= 2
        /\ t[1] = "["
        /\ t[Len(t)] = "]"
        /\ \/ inner = <<>>
           \/ /\ Len(inner) % 2 = 1
              /\ \A i \in 1..Len(inner) :
                   IF i % 2 = 1 THEN inner[i] \in Digits ELSE inner[i] = ","
  IN IF wellFormed
       THEN [ok |-> TRUE, value |-> SelectSeq(inner, LAMBDA c : c \in Digits)]
       ELSE [ok |-> FALSE, value |-> <<>>]

-----------------------------------------------------------------------------
(* generatePreview *)

NullData == [isNull |-> TRUE, rows |-> <<>>]
\* a toast: its kind, its text (prefix and message) and the number shown in it
Toast(kind, prefix, msg, n) ==
  [kind |-> kind, prefix |-> prefix, msg |-> msg, n |-> n]

StreamFailedMsg == "Failed to stream preview data."
SyntaxErrorMsg == "Unexpected token in JSON"
NetworkErrorMsg == "Failed to fetch"
ReadErrorMsg == "network error"

\* the for-loop over the complete lines of one read; st holds the locals and
\* the React state the loop writes, st.thrown the exception JSON.parse threw
RECURSIVE ForLines(_, _)
ForLines(lines, st) ==
  IF lines = <<>> \/ st.thrown THEN st
  ELSE LET line == Head(lines)
           parsed == JSONparse(line)
           chunk == parsed.value
       IN IF Trim(line) = <<>> THEN ForLines(Tail(lines), st)
          ELSE IF ~parsed.ok THEN [st EXCEPT !.thrown = TRUE]
          ELSE ForLines(Tail(lines),
                 [st EXCEPT
                    !.allRows = @ \o chunk,
                    !.previewData = IF @.isNull
                                      THEN [isNull |-> FALSE, rows |-> chunk]
                                      ELSE [isNull |-> FALSE, rows |-> @.rows \o chunk],
                    !.chunkCount = @ + 1,
                    !.rowCount = @ + Len(chunk),
                    !.previewProgress = [chunks |-> st.chunkCount + 1,
                                         rows |-> st.rowCount + Len(chunk)],
                    !.toast = Toast("info", "", "Received more rows...", Len(chunk))])

\* the loop body without the carry-over of the unterminated tail
Decode_NoCarry(buf, text, st) ==
  LET lines == Split(text)
      rest == SubSeq(lines, 1, Len(lines) - 1)
  IN ForLines(rest, [st EXCEPT !.buffer = lines[Len(lines)]])

\* the loop body counting one row per line instead of chunk.length
Decode_CountLines(buf, text, st) ==
  LET lines == Split(buf \o text)
      rest == SubSeq(lines, 1, Len(lines) - 1)
      out == ForLines(rest, [st EXCEPT !.buffer = lines[Len(lines)]])
  IN [out EXCEPT !.rowCount = out.chunkCount,
                 !.previewProgress = IF out.chunkCount > st.chunkCount
                                       THEN [chunks |-> out.chunkCount,
                                             rows |-> out.chunkCount]
                                       ELSE @]

\* the loop body putting the rows of a read in front of the earlier rows
Decode_Prepend(buf, text, st) ==
  LET lines == Split(buf \o text)
      rest == SubSeq(lines, 1, Len(lines) - 1)
      out == ForLines(rest, [st EXCEPT !.buffer = lines[Len(lines)]])
      new == SubSeq(out.allRows, Len(st.allRows) + 1, Len(out.allRows))
  IN [out EXCEPT !.previewData = [isNull |-> st.previewData.isNull /\ new = <<>>,
                                  rows |-> new \o st.previewData.rows]]

\* one iteration of the while-loop for a read that returned text
Decode(buf, text, st) ==
  LET lines == Split(buf \o text)
      rest == SubSeq(lines, 1, Len(lines) - 1)
  IN ForLines(rest, [st EXCEPT !.buffer = lines[Len(lines)]])

\* the locals and React state as the record Decode works on
Locals ==
  [buffer |-> buffer, allRows |-> allRows, chunkCount |-> chunkCount,
   rowCount |-> rowCount, previewData |-> previewData,
   previewProgress |-> previewProgress, toast |-> toast, thrown |-> FALSE]

\* the catch and finally blocks of generatePreview
Catch(errorMessage) ==
  /\ toast' = Toast("error", "Preview Error: ", errorMessage, 0)
  /\ previewData' = NullData
  /\ previewProgress' = [chunks |-> 0, rows |-> 0]
  /\ previewLoading' = FALSE
  /\ pc' = "failed"
  /\ outcomes' = Append(outcomes, "failure")

\* generatePreview up to the await of fetch; the Generate and Regenerate
\* buttons and the mount effect call it only while previewLoading is false.
\* The locals of the previous call no longer exist.
generatePreview ==
  /\ UNCHANGED <<statusVars, auxVars>>
  /\ ~previewLoading
  /\ IF dimensions = <<>>
       THEN /\ toast' = Toast("error", "", "You must define at least one dimension.", 0)
            /\ UNCHANGED <<previewLoading, previewData, previewProgress,
                           sessionVars>>
       ELSE /\ previewLoading' = TRUE
            /\ previewData' = [isNull |-> FALSE, rows |-> <<>>]
            /\ previewProgress' = [chunks |-> 0, rows |-> 0]
            /\ pc' = "requesting"
            /\ stream' = <<>>
            /\ pos' = 0
            /\ buffer' = <<>>
            /\ allRows' = <<>>
            /\ chunkCount' = 0
            /\ rowCount' = 0
            /\ splitMid' = FALSE
            /\ multi' = FALSE
            /\ outcomes' = <<>>
            /\ UNCHANGED toast
  /\ UNCHANGED <<dimensions, currentStep>>

\* fetch rejects: the connection cannot be established
FetchRejects ==
  /\ UNCHANGED <<statusVars, auxVars>>
  /\ pc = "requesting"
  /\ Catch(NetworkErrorMsg)
  /\ UNCHANGED <<dimensions, currentStep, stream, pos, buffer, allRows,
                 chunkCount, rowCount, splitMid, multi>>

\* the test of response.ok and response.body made inside the read loop
FetchNotOk_Late ==
  /\ UNCHANGED <<statusVars, auxVars>>
  /\ pc = "streaming"
  /\ Catch(StreamFailedMsg)
  /\ UNCHANGED <<dimensions, currentStep, stream, pos, buffer, allRows,
                 chunkCount, rowCount, splitMid, multi>>

\* fetch resolves with !response.ok or without a body
FetchNotOk ==
  /\ UNCHANGED <<statusVars, auxVars>>
  /\ pc = "requesting"
  /\ Catch(StreamFailedMsg)
  /\ UNCHANGED <<dimensions, currentStep, stream, pos, buffer, allRows,
                 chunkCount, rowCount, splitMid, multi>>

\* fetch resolves with a body: the reader and the locals are set up
FetchOk(body) ==
  /\ UNCHANGED <<statusVars, auxVars>>
  /\ pc = "requesting"
  /\ pc' = "streaming"
  /\ stream' = body
  /\ pos' = 0
  /\ buffer' = <<>>
  /\ allRows' = <<>>
  /\ chunkCount' = 0
  /\ rowCount' = 0
  /\ UNCHANGED <<contextVars, splitMid, multi, outcomes>>

\* reader.read() resolves with the next n characters of the body
Read(n) ==
  /\ UNCHANGED <<statusVars, auxVars>>
  /\ pc = "streaming"
  /\ pos + n <= Len(stream)
  /\ LET st == Decode(buffer, SubSeq(stream, pos + 1, pos + n), Locals)
     IN /\ pos' = pos + n
        /\ buffer' = st.buffer
        /\ allRows' = st.allRows
        /\ chunkCount' = st.chunkCount
        /\ rowCount' = st.rowCount
        /\ IF st.thrown
             THEN Catch(SyntaxErrorMsg)
             ELSE /\ previewData' = st.previewData
                  /\ previewProgress' = st.previewProgress
                  /\ toast' = st.toast
                  /\ UNCHANGED <<previewLoading, pc, outcomes>>
  /\ splitMid' = (splitMid \/ (pos + n < Len(stream) /\ stream[pos + n] # NL))
  /\ multi' = (multi \/ Cardinality({k \in (pos + 1)..(pos + n) : stream[k] = NL}) >= 2)
  /\ UNCHANGED <<dimensions, currentStep, stream>>

\* the end of the body with the success toast falling into the catch block
ReadDone_ThenCatch ==
  /\ UNCHANGED <<statusVars, auxVars>>
  /\ pc = "streaming"
  /\ pos = Len(stream)
  /\ toast' = Toast("error", "Preview Error: ", ReadErrorMsg, 0)
  /\ previewData' = NullData
  /\ previewProgress' = [chunks |-> 0, rows |-> 0]
  /\ previewLoading' = FALSE
  /\ pc' = "failed"
  /\ outcomes' = outcomes \o <<"success", "failure">>
  /\ UNCHANGED <<dimensions, currentStep, stream, pos, buffer, allRows,
                 chunkCount, rowCount, splitMid, multi>>

\* reader.read() resolves with done: break, success toast, finally
ReadDone ==
  /\ UNCHANGED <<statusVars, auxVars>>
  /\ pc = "streaming"
  /\ pos = Len(stream)
  /\ toast' = Toast("success", "", "Preview data generated", Len(allRows))
  /\ previewLoading' = FALSE
  /\ pc' = "done"
  /\ outcomes' = Append(outcomes, "success")
  /\ UNCHANGED <<dimensions, currentStep, previewData, previewProgress,
                 stream, pos, buffer, allRows, chunkCount, rowCount,
                 splitMid, multi>>

\* reader.read() rejects: the connection dropped in the middle of the body
ReadRejects ==
  /\ UNCHANGED <<statusVars, auxVars>>
  /\ pc = "streaming"
  /\ Catch(ReadErrorMsg)
  /\ UNCHANGED <<dimensions, currentStep, stream, pos, buffer, allRows,
                 chunkCount, rowCount, splitMid, multi>>

\* setCurrentStep(step): ModelWizard renders the component of the new step,
\* whose local state starts from its initial values; the component of the
\* step left is unmounted
Goto(step) ==
  /\ currentStep' = step
  /\ IF step = currentStep
       THEN UNCHANGED <<stepPhase, dialogOpen, editingDimension>>
       ELSE /\ stepPhase' = "selectType"
            /\ dialogOpen' = FALSE
            /\ editingDimension' = NoDim

\* resetModel
resetModel ==
  /\ UNCHANGED <<statusVars, confirmVars, secondVars, dimensionInputMethod, now>>
  /\ dimensions' = <<>>
  /\ Goto(0)
  /\ previewData' = NullData
  /\ UNCHANGED <<previewLoading, previewProgress, toast, sessionVars>>

\* downloadData; its button is enabled while previewLoading is false and
\* previewData is not null
downloadData ==
  /\ UNCHANGED <<statusVars, auxVars>>
  /\ ~previewLoading
  /\ ~previewData.isNull
  /\ previewProgress' = [chunks |-> 0, rows |-> 0]
  /\ toast' = IF previewData.rows = <<>>
                THEN Toast("error", "", "No data available for download", 0)
                ELSE Toast("success", "", "Data downloaded successfully", 0)
  /\ UNCHANGED <<dimensions, currentStep, previewLoading, previewData,
                 sessionVars>>

\* fetch resolves with some body; reader.read() resolves with some chunk
FetchResolves == \E body \in Bodies : FetchOk(body)
ReadChunk == \E n \in 1..(Len(stream) - pos) : Read(n)

PreviewNext ==
  \/ generatePreview
  \/ FetchRejects
  \/ FetchNotOk
  \/ FetchResolves
  \/ ReadChunk
  \/ ReadDone
  \/ ReadRejects
  \/ resetModel
  \/ downloadData

PreviewInit ==
  /\ StatusInit
  /\ ContextInit
  /\ AuxInit
  /\ dimensions \in {<<>>, <<1>>}

SpecPreview == PreviewInit /\ [][PreviewNext]_vars

\* the promises the call awaits are settled by the browser: fetch resolves
\* or rejects, and reader.read() resolves with a chunk, with done, or rejects
FetchSettles ==
  pc = "requesting" /\ (FetchRejects \/ FetchNotOk \/ FetchResolves)
ReadSettles ==
  pc = "streaming" /\ (ReadRejects \/ ReadChunk \/ ReadDone)

\* the state in which PreviewDownloadStep is mounted for the first time: the
\* wizard was walked through with one dimension created by hand
MountedInit ==
  /\ StatusInit
  /\ ConfirmInit
  /\ SecondInit
  /\ NoPreviewYet
  /\ currentStep = 4
  /\ dimensions = <<1>>
  /\ dimensionInputMethod = "manual"
  /\ stepPhase = "selectType"
  /\ dialogOpen = FALSE
  /\ editingDimension = NoDim
  /\ now = 2

\* the effect of PreviewDownloadStep: it runs after the renders in which
\* previewData or previewLoading changed
MountEffect ==
  /\ currentStep = 4
  /\ previewData.isNull
  /\ ~previewLoading
  /\ generatePreview

\* PreviewDownloadStep left alone by the user: only its effect calls
\* generatePreview
UnattendedNext ==
  \/ MountEffect
  \/ FetchRejects
  \/ FetchNotOk
  \/ FetchResolves
  \/ ReadChunk
  \/ ReadDone
  \/ ReadRejects

SpecUnattended == MountedInit /\ [][UnattendedNext]_vars

-----------------------------------------------------------------------------
(* Two generatePreview calls in flight: the context value exposes the       *)
(* function itself, which does not test previewLoading                      *)

\* the locals of the second call and the React state, as Decode works on them
Locals2 ==
  [buffer |-> buffer2, allRows |-> allRows2, chunkCount |-> chunkCount2,
   rowCount |-> rowCount2, previewData |-> previewData,
   previewProgress |-> previewProgress, toast |-> toast, thrown |-> FALSE]

\* what the steps of the second call leave alone
secondFrame == <<statusVars, confirmVars, wizardVars, dimensions, currentStep,
                 sessionVars>>

\* the catch and finally blocks of the second call
Catch2(errorMessage) ==
  /\ toast' = Toast("error", "Preview Error: ", errorMessage, 0)
  /\ previewData' = NullData
  /\ previewProgress' = [chunks |-> 0, rows |-> 0]
  /\ previewLoading' = FALSE
  /\ pc2' = "failed"

\* generatePreview called by a consumer of the context while the first call
\* awaits fetch or reader.read(): the function has no test of previewLoading
generatePreviewAgain ==
  /\ UNCHANGED secondFrame
  /\ pc \in {"requesting", "streaming"}
  /\ pc2 = "idle"
  /\ IF dimensions = <<>>
       THEN /\ toast' = Toast("error", "", "You must define at least one dimension.", 0)
            /\ UNCHANGED <<previewLoading, previewData, previewProgress,
                           secondVars>>
       ELSE /\ previewLoading' = TRUE
            /\ previewData' = [isNull |-> FALSE, rows |-> <<>>]
            /\ previewProgress' = [chunks |-> 0, rows |-> 0]
            /\ pc2' = "requesting"
            /\ UNCHANGED <<toast, stream2, pos2, buffer2, allRows2,
                           chunkCount2, rowCount2>>

\* fetch of the second call rejects
Fetch2Rejects ==
  /\ UNCHANGED secondFrame
  /\ pc2 = "requesting"
  /\ Catch2(NetworkErrorMsg)
  /\ UNCHANGED <<stream2, pos2, buffer2, allRows2, chunkCount2, rowCount2>>

\* fetch of the second call resolves with !response.ok or without a body
Fetch2NotOk ==
  /\ UNCHANGED secondFrame
  /\ pc2 = "requesting"
  /\ Catch2(StreamFailedMsg)
  /\ UNCHANGED <<stream2, pos2, buffer2, allRows2, chunkCount2, rowCount2>>

\* fetch of the second call resolves with a body: its own reader and locals
Fetch2Ok(body) ==
  /\ UNCHANGED secondFrame
  /\ pc2 = "requesting"
  /\ pc2' = "streaming"
  /\ stream2' = body
  /\ pos2' = 0
  /\ buffer2' = <<>>
  /\ allRows2' = <<>>
  /\ chunkCount2' = 0
  /\ rowCount2' = 0
  /\ UNCHANGED <<previewLoading, previewData, previewProgress, toast>>

\* reader.read() of the second call resolves with the next n characters
Read2(n) ==
  /\ UNCHANGED secondFrame
  /\ pc2 = "streaming"
  /\ pos2 + n <= Len(stream2)
  /\ LET st == Decode(buffer2, SubSeq(stream2, pos2 + 1, pos2 + n), Locals2)
     IN /\ pos2' = pos2 + n
        /\ buffer2' = st.buffer
        /\ allRows2' = st.allRows
        /\ chunkCount2' = st.chunkCount
        /\ rowCount2' = st.rowCount
        /\ IF st.thrown
             THEN Catch2(SyntaxErrorMsg)
             ELSE /\ previewData' = st.previewData
                  /\ previewProgress' = st.previewProgress
                  /\ toast' = st.toast
                  /\ UNCHANGED <<previewLoading, pc2>>
  /\ UNCHANGED stream2

\* reader.read() of the second call resolves with done
Read2Done ==
  /\ UNCHANGED secondFrame
  /\ pc2 = "streaming"
  /\ pos2 = Len(stream2)
  /\ toast' = Toast("success", "", "Preview data generated", Len(allRows2))
  /\ previewLoading' = FALSE
  /\ pc2' = "done"
  /\ UNCHANGED <<previewData, previewProgress, stream2, pos2, buffer2,
                 allRows2, chunkCount2, rowCount2>>

\* reader.read() of the second call rejects
Read2Rejects ==
  /\ UNCHANGED secondFrame
  /\ pc2 = "streaming"
  /\ Catch2(ReadErrorMsg)
  /\ UNCHANGED <<stream2, pos2, buffer2, allRows2, chunkCount2, rowCount2>>

\* the bodies of one newline-terminated line
OneLineBodies == { Join(<<l>>, TRUE) : l \in LineTexts }

FetchResolvesShort == \E body \in OneLineBodies : FetchOk(body)
Fetch2Resolves == \E body \in OneLineBodies : Fetch2Ok(body)
Read2Chunk == \E n \in 1..(Len(stream2) - pos2) : Read2(n)

\* the call the effect of PreviewDownloadStep makes when the step is mounted
FirstCall == pc = "idle" /\ MountEffect

\* the first call made by the step's effect, the second by a direct call of
\* the context function
ConcurrentNext ==
  \/ FirstCall
  \/ FetchRejects
  \/ FetchNotOk
  \/ FetchResolvesShort
  \/ ReadChunk
  \/ ReadDone
  \/ ReadRejects
  \/ generatePreviewAgain
  \/ Fetch2Rejects
  \/ Fetch2NotOk
  \/ Fetch2Resolves
  \/ Read2Chunk
  \/ Read2Done
  \/ Read2Rejects

SpecConcurrent == MountedInit /\ [][ConcurrentNext]_vars

SpecPreviewFair ==
  /\ SpecPreview
  /\ WF_vars(FetchSettles)
  /\ WF_vars(ReadSettles)

-----------------------------------------------------------------------------
(* App.handleModelConfirm: the reader of /generate-stream of the upload path *)

RECURSIVE ConfirmForEach(_, _)
\* text.split('\n').forEach(...): a chunk that is blank is skipped, a chunk
\* that does not parse is skipped by the empty catch, the rows of an array
\* are concatenated (JSONparse reports a JSON text that is not an array as
\* not parsed; the handler skips both)
ConfirmForEach(chunks, rows) ==
  IF chunks = <<>> THEN rows
  ELSE LET chunk == Head(chunks)
           parsed == JSONparse(chunk)
       IN IF Trim(chunk) # <<>> /\ parsed.ok
            THEN ConfirmForEach(Tail(chunks), rows \o parsed.value)
            ELSE ConfirmForEach(Tail(chunks), rows)

\* handleModelConfirm up to the await of fetch; while isLoading is true App
\* renders the loading view, so the dialog cannot confirm a second time
handleModelConfirm ==
  /\ UNCHANGED <<statusVars, previewVars, wizardVars, secondVars>>
  /\ hpc \in {"idle", "done", "failed"}
  /\ hpc' = "requesting"
  /\ hStream' = <<>>
  /\ hPos' = 0
  /\ hAllRows' = <<>>
  /\ UNCHANGED hPreviewData

\* fetch rejects: alert('Failed to generate data.')
ConfirmFetchRejects ==
  /\ UNCHANGED <<statusVars, previewVars, wizardVars, secondVars>>
  /\ hpc = "requesting"
  /\ hpc' = "failed"
  /\ UNCHANGED <<hStream, hPos, hAllRows, hPreviewData>>

\* fetch resolves without a body: reader is undefined, the loop is skipped
ConfirmFetchNoBody ==
  /\ UNCHANGED <<statusVars, previewVars, wizardVars, secondVars>>
  /\ hpc = "requesting"
  /\ hpc' = "done"
  /\ hPreviewData' = [isNull |-> FALSE, rows |-> <<>>]
  /\ UNCHANGED <<hStream, hPos, hAllRows>>

\* fetch resolves with a body
ConfirmFetchOk(body) ==
  /\ UNCHANGED <<statusVars, previewVars, wizardVars, secondVars>>
  /\ hpc = "requesting"
  /\ hpc' = "reading"
  /\ hStream' = body
  /\ hPos' = 0
  /\ hAllRows' = <<>>
  /\ UNCHANGED hPreviewData

\* reader.read() resolves with the next n characters: decoder.decode(value)
\* and the forEach over its lines
ConfirmRead(n) ==
  /\ UNCHANGED <<statusVars, previewVars, wizardVars, secondVars>>
  /\ hpc = "reading"
  /\ hPos + n <= Len(hStream)
  /\ hPos' = hPos + n
  /\ hAllRows' = ConfirmForEach(Split(SubSeq(hStream, hPos + 1, hPos + n)),
                                hAllRows)
  /\ UNCHANGED <<hpc, hStream, hPreviewData>>

\* reader.read() resolves with done: setPreviewData(allRows.slice(0, 100))
ConfirmReadDone ==
  /\ UNCHANGED <<statusVars, previewVars, wizardVars, secondVars>>
  /\ hpc = "reading"
  /\ hPos = Len(hStream)
  /\ hpc' = "done"
  /\ hPreviewData' =
       [isNull |-> FALSE,
        rows |-> SubSeq(hAllRows, 1,
                        IF Len(hAllRows) < 100 THEN Len(hAllRows) ELSE 100)]
  /\ UNCHANGED <<hStream, hPos, hAllRows>>

\* reader.read() rejects: alert('Failed to generate data.')
ConfirmReadRejects ==
  /\ UNCHANGED <<statusVars, previewVars, wizardVars, secondVars>>
  /\ hpc = "reading"
  /\ hpc' = "failed"
  /\ UNCHANGED <<hStream, hPos, hAllRows, hPreviewData>>

ConfirmFetchResolves == \E body \in Bodies : ConfirmFetchOk(body)
ConfirmReadChunk == \E n \in 1..(Len(hStream) - hPos) : ConfirmRead(n)

ConfirmNext ==
  \/ handleModelConfirm
  \/ ConfirmFetchRejects
  \/ ConfirmFetchNoBody
  \/ ConfirmFetchResolves
  \/ ConfirmReadChunk
  \/ ConfirmReadDone
  \/ ConfirmReadRejects

SpecConfirm == StatusSpecInit /\ [][ConfirmNext]_vars

-----------------------------------------------------------------------------
(* The wizard: ModelWizard, StepIndicator and the step components *)

\* what the handlers of the wizard leave alone
wizardFrame == <<statusVars, confirmVars, secondVars, previewLoading,
                 previewData, previewProgress, toast, sessionVars>>

\* the ids of the dimensions of the model
DimIds == {dimensions[k] : k \in DOMAIN dimensions}

\* ModelTypeStep.handleConfirmTypeAndName
handleConfirmTypeAndName ==
  /\ UNCHANGED wizardFrame
  /\ currentStep = 0
  /\ stepPhase = "selectType"
  /\ stepPhase' = "chooseDimensionMethod"
  /\ UNCHANGED <<dimensions, currentStep, dimensionInputMethod, dialogOpen,
                 editingDimension, now>>

\* ModelTypeStep.handleManualDimensions
handleManualDimensions ==
  /\ UNCHANGED wizardFrame
  /\ currentStep = 0
  /\ stepPhase = "chooseDimensionMethod"
  /\ dimensionInputMethod' = "manual"
  /\ Goto(1)
  /\ UNCHANGED <<dimensions, now>>

\* ModelTypeStep.handleUploadDimensions
handleUploadDimensions ==
  /\ UNCHANGED wizardFrame
  /\ currentStep = 0
  /\ stepPhase = "chooseDimensionMethod"
  /\ dimensionInputMethod' = "upload"
  /\ Goto(1)
  /\ UNCHANGED <<dimensions, now>>

\* DimensionsStep is rendered (the dialog is modal: the buttons of the page
\* are reachable only while it is closed)
DimensionsStepShown == currentStep = 1 /\ dimensionInputMethod = "manual"

\* DimensionsStep.handleOpenCreateDialog
handleOpenCreateDialog ==
  /\ UNCHANGED wizardFrame
  /\ DimensionsStepShown
  /\ ~dialogOpen
  /\ editingDimension' = NoDim
  /\ dialogOpen' = TRUE
  /\ UNCHANGED <<dimensions, currentStep, dimensionInputMethod, stepPhase,
                 now>>

\* DimensionsStep.handleOpenEditDialog(dimension)
handleOpenEditDialog(id) ==
  /\ UNCHANGED wizardFrame
  /\ DimensionsStepShown
  /\ ~dialogOpen
  /\ id \in DimIds
  /\ editingDimension' = id
  /\ dialogOpen' = TRUE
  /\ UNCHANGED <<dimensions, currentStep, dimensionInputMethod, stepPhase,
                 now>>

\* the Cancel button and onOpenChange of the dialog: setDialogOpen(false)
CloseDialog ==
  /\ UNCHANGED wizardFrame
  /\ DimensionsStepShown
  /\ dialogOpen
  /\ dialogOpen' = FALSE
  /\ UNCHANGED <<dimensions, currentStep, dimensionInputMethod, stepPhase,
                 editingDimension, now>>

\* ModelContext.addDimension
addDimension(id) == dimensions' = Append(dimensions, id)

\* ModelContext.removeDimension
removeDimension(id) == dimensions' = SelectSeq(dimensions, LAMBDA d : d # id)

\* DimensionsStep.handleSaveDimension; valid: the form has a name and a
\* member.  A new dimension gets the id dim-<Date.now()>; saves are made by
\* hand, so two of them never fall into the same millisecond.
handleSaveDimension(valid) ==
  /\ UNCHANGED wizardFrame
  /\ DimensionsStepShown
  /\ dialogOpen
  /\ IF ~valid
       THEN UNCHANGED <<dimensions, dialogOpen, now>>
       ELSE /\ Len(dimensions) < MaxDims
            /\ now <= MaxDims
            /\ addDimension(IF editingDimension # NoDim
                              THEN editingDimension ELSE now)
            /\ now' = IF editingDimension # NoDim THEN now ELSE now + 1
            /\ dialogOpen' = FALSE
  /\ UNCHANGED <<currentStep, dimensionInputMethod, stepPhase,
                 editingDimension>>

\* DimensionsStep.handleDeleteDimension(dimensionId), confirmed
handleDeleteDimension(id) ==
  /\ UNCHANGED wizardFrame
  /\ DimensionsStepShown
  /\ ~dialogOpen
  /\ id \in DimIds
  /\ removeDimension(id)
  /\ UNCHANGED <<currentStep, dimensionInputMethod, stepPhase, dialogOpen,
                 editingDimension, now>>

\* DimensionsStep.handleNext
DimensionsNext ==
  /\ UNCHANGED wizardFrame
  /\ DimensionsStepShown
  /\ ~dialogOpen
  /\ IF dimensions = <<>>
       THEN UNCHANGED <<currentStep, stepPhase, dialogOpen, editingDimension>>
       ELSE Goto(2)
  /\ UNCHANGED <<dimensions, dimensionInputMethod, now>>

\* DimensionsStep.handleBack
DimensionsBack ==
  /\ UNCHANGED wizardFrame
  /\ DimensionsStepShown
  /\ ~dialogOpen
  /\ Goto(0)
  /\ UNCHANGED <<dimensions, dimensionInputMethod, now>>

\* handleNext and handleBack of DependenciesStep, handleSaveSettings and
\* handleBack of DataSettingsStep, handleBack of PreviewDownloadStep
StepButton(from, to) ==
  /\ UNCHANGED wizardFrame
  /\ currentStep = from
  /\ Goto(to)
  /\ UNCHANGED <<dimensions, dimensionInputMethod, now>>

\* StepIndicator allowing a click on the step after the current one
StepIndicatorClick_Forward(i) ==
  /\ UNCHANGED wizardFrame
  /\ i <= currentStep + 1
  /\ Goto(i)
  /\ UNCHANGED <<dimensions, dimensionInputMethod, now>>

\* StepIndicator's onClick of step i
StepIndicatorClick(i) ==
  /\ UNCHANGED wizardFrame
  /\ IF i <= currentStep
       THEN Goto(i)
       ELSE UNCHANGED <<currentStep, stepPhase, dialogOpen, editingDimension>>
  /\ UNCHANGED <<dimensions, dimensionInputMethod, now>>

OpenEditDialog == \E id \in DimIds : handleOpenEditDialog(id)
SaveDimension == \E valid \in BOOLEAN : handleSaveDimension(valid)
DeleteDimension == \E id \in DimIds : handleDeleteDimension(id)
DependenciesNext == StepButton(2, 3)
DependenciesBack == StepButton(2, 1)
DataSettingsSave == StepButton(3, 4)
DataSettingsBack == StepButton(3, 2)
PreviewBack == StepButton(4, 3)
StepClick == \E i \in 0..4 : StepIndicatorClick(i)

WizardNext ==
  \/ handleConfirmTypeAndName
  \/ handleManualDimensions
  \/ handleUploadDimensions
  \/ handleOpenCreateDialog
  \/ OpenEditDialog
  \/ CloseDialog
  \/ SaveDimension
  \/ DeleteDimension
  \/ DimensionsNext
  \/ DimensionsBack
  \/ DependenciesNext
  \/ DependenciesBack
  \/ DataSettingsSave
  \/ DataSettingsBack
  \/ PreviewBack
  \/ StepClick
  \/ resetModel

SpecWizard == StatusSpecInit /\ [][WizardNext]_vars

-----------------------------------------------------------------------------
(* Claims about the status channel, checked under SpecStatus *)

\* connections in the connecting or open state
Live == {i \in DOMAIN ws : ws[i] < CLOSING}

\* C1: in every reachable state at most one underlying connection is in the
\* connecting or open state (connectWebSocket creates no second connection
\* while one is connecting or open).
C1_AtMostOneLive == Cardinality(Live) <= 1

\* C2: after disconnectWebSocket was called while a reconnect timer is
\* pending, the timer creates no new connection when it fires.
C2_NoReconnectAfterDisconnect ==
  [][(pendingAtDisc > 0 /\ reconnectTimers' < reconnectTimers)
       => Len(ws') = Len(ws)]_vars

\* C3 as stated: after 5 consecutive failed connection attempts with no open
\* in between (one explicit connectWebSocket call, no disconnect), no
\* automatic reconnect is pending or made.
C3_StopsAfterFiveFailures ==
  (fails >= maxReconnectAttempts /\ explicitConnects = 1 /\ ~discSinceOpen)
    => reconnectTimers = 0

\* C3 as amended: with no open in between at most 5 reconnects are scheduled
\* (the 5th failed attempt still schedules one when the first connection
\* never opened); once the counter reads 5 no step schedules a reconnect, and
\* once none is pending only an explicit connectWebSocket call creates a
\* connection.
C3_StopsAtCounterFive ==
  /\ [](scheduled <= maxReconnectAttempts)
  /\ [][reconnectAttempts = maxReconnectAttempts
         => /\ reconnectTimers' <= reconnectTimers
            /\ (reconnectTimers = 0 /\ Len(ws') > Len(ws))
                  => lastOp' = "connect"]_vars

\* six attempts failed in a row, the retries are exhausted and none pending
C3_Witness ==
  /\ fails = maxReconnectAttempts + 1
  /\ scheduled = maxReconnectAttempts
  /\ reconnectAttempts = maxReconnectAttempts
  /\ reconnectTimers = 0
  /\ Live = {}

\* C7: when the 3-second timer fires, latestStatus becomes '' if it still
\* is the 'connected' notice and is left unchanged otherwise (a status
\* message that arrived in the meantime survives); nothing else changes.
C7_SelfClearOnlyNotice ==
  [][clearTimers' < clearTimers
       => /\ latestStatus' = IF latestStatus = ConnectedNotice
                               THEN "" ELSE latestStatus
          /\ UNCHANGED <<isConnected, socket, reconnectAttempts, ws>>]_vars

\* the timer fired after a message had replaced the notice
C7_Witness == lastOp = "clearTimer" /\ latestStatus \in Messages

\* C8: right after disconnectWebSocket returns, isConnected is false and
\* latestStatus is '', whatever the state it was called in.
C8_DisconnectClears ==
  lastOp = "disconnect" => (isConnected = FALSE /\ latestStatus = "")

\* C9 as stated: right after the 5th consecutive close event (no open, no
\* manual disconnect in between, one explicit connectWebSocket call) 5
\* reconnects were scheduled, none is pending any more and latestStatus is
\* the give-up notice.
C9_GiveUpAfterFiveCloses ==
  (lastOp = "close" /\ closes = maxReconnectAttempts /\ explicitConnects = 1
     /\ ~discSinceOpen)
    => /\ scheduled = maxReconnectAttempts
       /\ reconnectTimers = 0
       /\ latestStatus = GiveUpNotice

\* C9 as amended: right after the 6th consecutive close event (no open, no
\* disconnectWebSocket call in between) exactly 5 reconnects have been
\* scheduled, the counter stays at 5 and latestStatus is the give-up notice;
\* after the 5th close the notice is still the reconnecting one.
C9_GiveUpAfterSixCloses ==
  /\ (lastOp = "close" /\ closes = maxReconnectAttempts + 1 /\ ~discSinceOpen)
       => /\ scheduled = maxReconnectAttempts
          /\ reconnectAttempts = maxReconnectAttempts
          /\ latestStatus = GiveUpNotice
  /\ (lastOp = "close" /\ closes = maxReconnectAttempts /\ ~discSinceOpen)
       => /\ scheduled = maxReconnectAttempts
          /\ latestStatus = ReconnectingNotice

\* the sixth close in a row has just been handled
C9_Witness ==
  /\ lastOp = "close"
  /\ closes = maxReconnectAttempts + 1
  /\ ~discSinceOpen
  /\ latestStatus = GiveUpNotice

\* C15: when the counter has reached 5, no connection is left and no
\* reconnect is pending (the retries ran out; disconnectWebSocket was not
\* called), an explicit connectWebSocket call resets the counter to 0.
C15_ExplicitConnectResetsCounter ==
  [][(/\ reconnectAttempts = maxReconnectAttempts
      /\ reconnectTimers = 0
      /\ Live = {}
      /\ ~discSinceOpen
      /\ lastOp' = "connect"
      /\ Len(ws') > Len(ws))
       => reconnectAttempts' = 0]_vars

\* C16: an error event sets latestStatus to the error notice and changes
\* nothing else: isConnected, socket, reconnectAttempts and the connections
\* are as before and no timer is set; isConnected goes from true to false
\* only in a close event or in disconnectWebSocket.
C16_ErrorChangesOnlyStatus ==
  /\ [][lastOp' = "error"
         => /\ latestStatus' = ErrorNotice
            /\ UNCHANGED <<isConnected, socket, reconnectAttempts, ws,
                           reconnectTimers, clearTimers>>]_vars
  /\ [][(isConnected /\ ~isConnected')
         => lastOp' \in {"close", "disconnect"}]_vars

\* an error event was handled on the open connection of the store
C16_Witness ==
  /\ lastOp = "error"
  /\ latestStatus = ErrorNotice
  /\ isConnected
  /\ socket # NoSocket
  /\ ws[socket] = OPEN
  /\ reconnectTimers = 0

\* C17: the close event of a connection that disconnectWebSocket did not
\* close leaves isConnected false; with a counter below 5 the counter grows
\* by 1, one reconnect timer is set and latestStatus is the reconnecting
\* notice; with the counter at 5 no timer is set, the counter keeps its
\* value and latestStatus is the give-up notice.
C17_CloseStep ==
  [][\A i \in DOMAIN ws :
       (ws[i] \in {CONNECTING, OPEN} /\ ws'[i] = CLOSED)
         => /\ isConnected' = FALSE
            /\ IF reconnectAttempts < maxReconnectAttempts
                 THEN /\ reconnectAttempts' = reconnectAttempts + 1
                      /\ reconnectTimers' = reconnectTimers + 1
                      /\ latestStatus' = ReconnectingNotice
                 ELSE /\ reconnectAttempts' = reconnectAttempts
                      /\ reconnectTimers' = reconnectTimers
                      /\ latestStatus' = GiveUpNotice]_vars

\* the third close in a row was handled with the counter at 2
C17_Witness ==
  /\ lastOp = "close"
  /\ ~discSinceOpen
  /\ ~isConnected
  /\ reconnectAttempts = 3
  /\ reconnectTimers = 1
  /\ latestStatus = ReconnectingNotice

\* C18: after disconnectWebSocket was called, isConnected is false until
\* connectWebSocket is called explicitly, also when the call was made while
\* the connection was still connecting.
C18_DisconnectIsAbsorbing == manual => ~isConnected

\* C19: the close event of a connection that disconnectWebSocket closed
\* leaves latestStatus at '' (no connectWebSocket call having been made
\* since the disconnect).
C19_EmptyStatusOnManualClose ==
  [][\A i \in DOMAIN ws :
       (/\ ws[i] = CLOSING
        /\ ws'[i] = CLOSED
        /\ manual
        /\ latestStatus = "")
         => latestStatus' = ""]_vars

\* C26: between handlers isConnected is true exactly when the socket field
\* of the store is not null.
C26_ConnectedIffSocket == isConnected <=> socket # NoSocket

\* a connection has closed while another one is still open: both fields
\* were cleared together
C26_Witness ==
  /\ lastOp = "close"
  /\ ~isConnected
  /\ socket = NoSocket
  /\ \E i \in DOMAIN ws : ws[i] = OPEN

\* C27: reconnectAttempts is in 0..5 in every state, whatever the
\* interleaving of the events of one or several connections, and it
\* decreases only in an open event, which sets it to 0.
C27_CounterInRange ==
  /\ [](reconnectAttempts \in 0..maxReconnectAttempts)
  /\ [][reconnectAttempts' < reconnectAttempts
         => (lastOp' = "open" /\ reconnectAttempts' = 0)]_vars

\* the closes of several connections brought the counter to 5 with two
\* reconnects pending
C27_Witness ==
  /\ lastOp = "close"
  /\ reconnectAttempts = maxReconnectAttempts
  /\ reconnectTimers = 2

-----------------------------------------------------------------------------
(* Claims about generatePreview, checked under SpecPreview *)

\* the locals right after the reader was obtained
FreshLocals ==
  [buffer |-> <<>>, allRows |-> <<>>, chunkCount |-> 0, rowCount |-> 0,
   previewData |-> [isNull |-> FALSE, rows |-> <<>>],
   previewProgress |-> [chunks |-> 0, rows |-> 0],
   toast |-> toast, thrown |-> FALSE]

\* the text read so far, decoded as one single read
SingleRead == Decode(<<>>, SubSeq(stream, 1, pos), FreshLocals)

\* C4: however the body was cut into reads, the rows delivered, the retained
\* buffer and the failure are those of one single read of the same text; the
\* buffer is empty after a read that ends with a newline.
C4_SplitInvariance ==
  pc \in {"streaming", "done", "failed"} =>
    /\ allRows = SingleRead.allRows
    /\ buffer = SingleRead.buffer
    /\ SingleRead.thrown => pc = "failed"
    /\ (pc # "failed" /\ dimensions # <<>>) =>
          previewData = SingleRead.previewData
    /\ (pos > 0 /\ stream[pos] = NL) => buffer = <<>>

\* a body of two arrays was read to its end, one read stopping inside a line
\* and one read holding two newlines
C4_Witness ==
  /\ pc = "done"
  /\ splitMid
  /\ multi
  /\ Len(allRows) >= 2
  /\ previewData.rows = allRows

\* C5: a line that does not parse is skipped; the session does not fail
\* because of it.
C5_MalformedLineNotFatal ==
  ~(pc = "failed" /\ toast.prefix = "Preview Error: "
                  /\ toast.msg = SyntaxErrorMsg)

\* C6: every pull leaves the row counter equal to the number of rows
\* delivered so far in the session: the rows appended to previewData by the
\* pull are the rows added to the counter, the progress published by a pull
\* that delivered a line is that total, and a pull that ends the session by
\* an exception leaves no rows and a zero counter.
C6_ProgressCountsDelivered ==
  [][(pc = "streaming" /\ pos' > pos) =>
       /\ rowCount' = Len(allRows')
       /\ IF pc' = "failed"
            THEN previewData'.isNull /\ previewProgress'.rows = 0
            ELSE /\ Len(previewData'.rows) - Len(previewData.rows)
                      = rowCount' - rowCount
                 /\ chunkCount' > chunkCount =>
                      previewProgress' = [chunks |-> chunkCount',
                                          rows |-> Len(allRows')]]_vars

\* a session delivered a two-row line and a one-row line
C6_Witness ==
  /\ pc = "streaming"
  /\ chunkCount = 2
  /\ previewProgress = [chunks |-> 2, rows |-> 3]
  /\ previewData.rows = allRows

RECURSIVE RowsOfLines(_)
\* the rows of the lines that parse, in order
RowsOfLines(lines) ==
  IF lines = <<>> THEN <<>>
  ELSE JSONparse(Head(lines)).value \o RowsOfLines(Tail(lines))

\* C10: a session that completes has delivered the rows of every line of the
\* body, the unterminated last line included.
C10_TailIsFlushed ==
  pc = "done" => allRows = RowsOfLines(Split(stream))

\* C11: a generatePreview call that issued its request ends with exactly one
\* terminal toast, success or failure (never both, never two), and from then
\* on, until the next call starts, no step delivers rows, counts a chunk or
\* publishes progress; given that the awaited promises are settled, every
\* call that issued its request reaches that end.
C11_OneOutcomeThenSilence ==
  /\ [](/\ Len(outcomes) <= 1
        /\ pc \in {"requesting", "streaming"} => outcomes = <<>>
        /\ pc = "done" <=> outcomes = <<"success">>
        /\ pc = "failed" <=> outcomes = <<"failure">>)
  /\ [][(outcomes # <<>> /\ pc' # "requesting")
         => /\ UNCHANGED <<outcomes, pos, buffer, allRows, chunkCount,
                           rowCount>>
            /\ toast'.kind # "info"
            /\ previewData' \in {previewData, NullData}
            /\ previewProgress' \in {previewProgress,
                                     [chunks |-> 0, rows |-> 0]}]_vars
  /\ (pc = "requesting") ~> (pc \in {"done", "failed"})

\* a call that delivered two lines has ended with the success toast, and the
\* data was downloaded afterwards
C11_Witness ==
  /\ pc = "done"
  /\ outcomes = <<"success">>
  /\ chunkCount = 2
  /\ toast.msg = "Data downloaded successfully"

\* the newline-terminated lines of the text read so far, in arrival order
CompleteLines ==
  LET ls == Split(SubSeq(stream, 1, pos))
  IN SubSeq(ls, 1, Len(ls) - 1)

\* C12: while a call streams and when it has completed, previewData holds
\* the rows of the lines received so far in the order of arrival: line after
\* line, and within a line in the order of its array (resetModel not having
\* emptied previewData in between); a read only appends to previewData.
C12_RowsInArrivalOrder ==
  /\ []((pc \in {"streaming", "done"} /\ dimensions # <<>>)
         => previewData.rows = RowsOfLines(CompleteLines))
  /\ [][(pc = "streaming" /\ pc' = "streaming" /\ pos' > pos)
         => previewData'.rows =
              previewData.rows
                \o SubSeq(RowsOfLines(CompleteLines'), Len(allRows) + 1,
                          Len(allRows'))]_vars

\* the lines [2,3] and [1] arrived in that order, in reads that cut a line
C12_Witness ==
  /\ pc = "done"
  /\ splitMid
  /\ chunkCount = 2
  /\ previewData.rows = <<"2", "3", "1">>

\* C13: when a call fails after rows were delivered, those rows remain in
\* previewData (stated for the failure of a read, with every line received
\* well-formed, and resetModel not called in between).
C13_RowsSurviveFailure ==
  (pc = "failed" /\ toast.msg = ReadErrorMsg /\ allRows # <<>>
     /\ dimensions # <<>>)
    => (~previewData.isNull /\ previewData.rows = allRows)

\* C14: a call fails with the message of a bad response ("Failed to stream
\* preview data.") or of a rejected fetch only from the state in which it
\* awaits fetch: not one character was read, no line was decoded, no row was
\* delivered and no progress was published.
C14_EarlyFailureReadsNothing ==
  [][(pc # "failed" /\ pc' = "failed"
        /\ toast'.msg \in {StreamFailedMsg, NetworkErrorMsg})
       => /\ pc = "requesting"
          /\ pos' = 0
          /\ stream' = <<>>
          /\ allRows' = <<>>
          /\ chunkCount' = 0
          /\ previewData'.rows = <<>>
          /\ previewProgress' = [chunks |-> 0, rows |-> 0]]_vars

\* a call got a bad response and failed before anything was read
C14_Witness ==
  /\ pc = "failed"
  /\ toast.msg = StreamFailedMsg
  /\ pos = 0
  /\ chunkCount = 0
  /\ previewProgress = [chunks |-> 0, rows |-> 0]

\* C20: previewProgress never decreases, except in the step that starts a
\* new generatePreview call (a failing read, downloadData and resetModel
\* leave it as it is).
C20_ProgressResetOnlyByNewCall ==
  [][(/\ \/ previewProgress'.chunks < previewProgress.chunks
            \/ previewProgress'.rows < previewProgress.rows
        /\ toast'.msg # SyntaxErrorMsg)
       => (pc # "requesting" /\ pc' = "requesting")]_vars

\* C24: a call that is streaming can be cancelled: the program has a step
\* that ends it otherwise than by success or failure (neither a completed
\* nor a failed call), after which nothing more is read.
C24_StreamingCallCanBeCancelled ==
  pc = "streaming"
    => ENABLED (/\ PreviewNext
                /\ pc' \notin {"requesting", "streaming", "done", "failed"})

\* C28: after resetModel was called while a call is streaming, previewData
\* is null as long as that call streams (dimensions is emptied by resetModel
\* and a call starts only with a dimension, so a streaming call without
\* dimensions is one that was reset).
C28_NullAfterResetWhileStreaming ==
  (pc = "streaming" /\ dimensions = <<>>) => previewData.isNull

\* C23: with no user action at all (SpecUnattended has none), a call that
\* has failed is not followed by a new request: the failed state is kept.
C23_NoAutomaticRetry == [][pc = "failed" => pc' = "failed"]_vars

\* C21: while one call is streaming, the chunks, the completion and the
\* failure of another call leave the records and the progress counts shown
\* for it as they are.
C21_SessionsAreIsolated ==
  [][(/\ pc = "streaming"
      /\ pc2 \in {"requesting", "streaming"}
      /\ UNCHANGED <<pc, pos>>)
     => UNCHANGED <<previewData, previewProgress>>]_vars

\* C22: a call of generatePreview made while a call is streaming is refused
\* with an error toast and starts no request: loading flag, data and
\* progress of the running call stay as they are.
C22_SecondCallFailsFast ==
  [][(pc = "streaming" /\ pc2 = "idle" /\ pc2' # "idle")
     => /\ pc2' = "rejected"
        /\ toast'.kind = "error"
        /\ UNCHANGED <<previewLoading, previewData, previewProgress>>]_vars

-----------------------------------------------------------------------------
(* Claims about handleModelConfirm, checked under SpecConfirm *)

\* C25: when handleModelConfirm has read the body to its end, allRows holds
\* the rows it collects when the same body arrives in one read, however the
\* body was cut into reads.
C25_ConfirmSplitInvariance ==
  hpc = "done" => hAllRows = ConfirmForEach(Split(hStream), <<>>)

-----------------------------------------------------------------------------
(* Claims about the wizard, checked under SpecWizard *)

\* C29: the model never holds two dimensions with the same id, and saving
\* the dialog opened by Edit leaves the number of dimensions unchanged.
C29_EditReplaces ==
  /\ [](\A j, k \in DOMAIN dimensions : j # k => dimensions[j] # dimensions[k])
  /\ [][(dialogOpen /\ editingDimension # NoDim /\ dimensions' # dimensions)
         => Len(dimensions') = Len(dimensions)]_vars

\* C30: whenever currentStep is 1, dimensionInputMethod is 'manual' or
\* 'upload'.
C30_MethodChosenAtStepOne ==
  currentStep = 1 => dimensionInputMethod \in {"manual", "upload"}

\* step 1 is shown with the upload method, chosen after a dimension had been
\* created under the manual method
C30_Witness ==
  /\ currentStep = 1
  /\ dimensionInputMethod = "upload"
  /\ now > 1

====
